---- MODULE Spec2Model ----
(***************************************************************************)
(* Model of cloud/amazon/codedeploy_facts.py: one run of main(), from the  *)
(* task arguments handed to AnsibleModule to the module's exit.            *)
(***************************************************************************)
EXTENDS Naturals, Sequences, FiniteSets, TLC

VARIABLES
    request,    \* the task arguments: each input name's string, or Missing
    pc,         \* position of main()
    params,     \* module.params once AnsibleModule is constructed
    invoked,    \* the builder main() dispatched to
    calls,      \* the remote client operations invoked, in order
    returned,   \* the mapping the remote client operation returned
    raised,     \* the error the remote client operation raised
    exitJson,   \* the kwargs of every module.exit_json call
    failJson,   \* the message of every module.fail_json call
    uncaught    \* the exception that left main() uncaught

vars == <<request, pc, params, invoked, calls, returned, raised, exitJson, failJson,
          uncaught>>

----------------------------------------------------------------------------
(* Bounds of the model *)

\* number of distinct non-empty strings a caller may supply per field
NumStrings == 2
\* number of distinct result mappings the remote client may return
NumResults == 2
\* number of distinct error messages the remote client may raise
NumErrors == 1

StringPool == <<"TOKEN123", "d-ABC", "Succeeded", "Registered">>
ErrorPool == <<"AccessDenied", "Throttling", "EndpointConnectionError">>

\* the strings a caller may supply: the empty string and some non-empty ones
Strings == {""} \cup {StringPool[i] : i \in 1..NumStrings}
RemoteResults == {[ResponseMetadata |-> i] : i \in 1..NumResults}
RemoteErrors == {ErrorPool[i] : i \in 1..NumErrors}

----------------------------------------------------------------------------
(* Python values *)

None == [t |-> "None"]
Str(s) == [t |-> "str", s |-> s]

\* faulty variant: the test written as "is not None"
Truthy_notNone(v) == v # None

\* truth value of a Python object: None and '' are false
Truthy(v) == v # None /\ v.s # ""

\* dict()
EmptyDict == [k \in {} |-> None]
\* d[k] = v
Put(d, k, v) == [x \in (DOMAIN d) \cup {k} |-> IF x = k THEN v ELSE d[x]]
\* d.get(k)
Get(d, k) == IF k \in DOMAIN d THEN d[k] ELSE None

----------------------------------------------------------------------------
(* The input surface *)

QueryChoices ==
    {"list_applications", "list_deployment_configs", "list_deployment_groups",
     "list_deployment_instances", "list_deployments", "list_on_premises_instances"}

\* argument_spec.update(dict(...)) in main()
ArgumentSpec ==
    {"query", "next_token", "application_name", "deployment_id",
     "deployment_group_name", "registration_status"}

\* values of query a caller may try
QueryInputs == QueryChoices \cup {"list_foo", "List_Applications"}

\* names a caller may pass besides query
OptionNames ==
    {"next_token", "application_name", "deployment_id", "deployment_group_name",
     "instance_status_filter", "registration_status"}

InputNames == {"query"} \cup OptionNames

\* a name the caller left out of the task arguments
Missing == [t |-> "missing"]

\* the names the caller supplied
Supplied(req) == {k \in DOMAIN req : req[k] # Missing}

QueryValues == {Missing} \cup {Str(q) : q \in QueryInputs}
OptionValues == {Missing} \cup {Str(s) : s \in Strings}

----------------------------------------------------------------------------
(* AnsibleModule(argument_spec=argument_spec, ...) *)

\* faulty variant: query declared without choices
CheckArguments_nochoices(req) ==
    IF \E k \in Supplied(req) : k \notin ArgumentSpec
        THEN Str("unsupported parameter for module")
    ELSE IF "query" \notin Supplied(req)
        THEN Str("missing required arguments: query")
    ELSE None

\* the checks the constructor runs on the task arguments, in its order:
\* a name argument_spec does not list, a required name left out, a value
\* outside choices (compared by exact equality); None when all pass
CheckArguments(req) ==
    IF \E k \in Supplied(req) : k \notin ArgumentSpec
        THEN Str("unsupported parameter for module")
    ELSE IF "query" \notin Supplied(req)
        THEN Str("missing required arguments: query")
    ELSE IF req["query"].s \notin QueryChoices
        THEN Str("value of query must be one of the choices")
    ELSE None

\* module.params: every name of argument_spec, None when not supplied
ModuleParams(req) ==
    [k \in ArgumentSpec |-> IF k \in Supplied(req) THEN req[k] ELSE None]

----------------------------------------------------------------------------
(* The builders: what each does with module.params before it returns.     *)
(* Fail(m): module.fail_json(msg=m), which ends the process.               *)
(* Call(op, d): the client operation op invoked with the dict d.          *)

Fail(m) == [fail |-> Str(m), op |-> "", params |-> EmptyDict]
Call(o, d) == [fail |-> None, op |-> o, params |-> d]

\* faulty variant: the token written under the input's own name
WithNextToken_snake(p, d) ==
    IF Truthy(Get(p, "next_token"))
        THEN Put(d, "next_token", Get(p, "next_token"))
        ELSE d

\* if module.params.get('next_token'): params['nextToken'] = ...
WithNextToken(p, d) ==
    IF Truthy(Get(p, "next_token"))
        THEN Put(d, "nextToken", Get(p, "next_token"))
        ELSE d

list_applications(p) ==
    Call("list_applications", WithNextToken(p, EmptyDict))

\* faulty variant: the builder copied from list_applications with its client call kept
list_deployment_configs_wrongop(p) ==
    Call("list_applications", WithNextToken(p, EmptyDict))

list_deployment_configs(p) ==
    Call("list_deployment_configs", WithNextToken(p, EmptyDict))

\* faulty variant: the builder goes on to the client call after reporting the failure
list_deployment_groups_noexit(p) ==
    IF Truthy(Get(p, "application_name"))
        THEN Call("list_deployment_groups",
                  WithNextToken(p, Put(EmptyDict, "applicationName",
                                       Get(p, "application_name"))))
        ELSE Call("list_deployment_groups", WithNextToken(p, EmptyDict))

list_deployment_groups(p) ==
    IF Truthy(Get(p, "application_name"))
        THEN Call("list_deployment_groups",
                  WithNextToken(p, Put(EmptyDict, "applicationName",
                                       Get(p, "application_name"))))
        ELSE Fail("application_name is required")

\* faulty variant: deployment_id treated as optional
list_deployment_instances_optional(p) ==
    LET d1 == IF Truthy(Get(p, "deployment_id"))
                  THEN Put(EmptyDict, "deploymentId", Get(p, "deployment_id"))
                  ELSE EmptyDict
    IN  Call("list_deployment_instances", WithNextToken(p, d1))

list_deployment_instances(p) ==
    IF Truthy(Get(p, "deployment_id"))
        THEN LET d1 == Put(EmptyDict, "deploymentId", Get(p, "deployment_id"))
                 d2 == IF Truthy(Get(p, "instance_status_filter"))
                           THEN Put(d1, "instanceStatusFilter",
                                    Get(p, "instance_status_filter"))
                           ELSE d1
             IN  Call("list_deployment_instances", WithNextToken(p, d2))
        ELSE Fail("deployment_id is required")

\* faulty variant: the last elif left out, and the two values stored crosswise
list_deployments_slip(p) ==
    LET dgn == Truthy(Get(p, "deployment_group_name"))
        app == Truthy(Get(p, "application_name"))
    IN  IF dgn /\ app
            THEN Call("list_deployments",
                      WithNextToken(p,
                          Put(Put(EmptyDict, "applicationName",
                                  Get(p, "deployment_group_name")),
                              "deploymentGroupName",
                              Get(p, "application_name"))))
        ELSE IF dgn /\ ~app
            THEN Fail("application_name is required when deployment_group_name used")
        ELSE Call("list_deployments", WithNextToken(p, EmptyDict))

list_deployments(p) ==
    LET dgn == Truthy(Get(p, "deployment_group_name"))
        app == Truthy(Get(p, "application_name"))
    IN  IF dgn /\ app
            THEN Call("list_deployments",
                      WithNextToken(p,
                          Put(Put(EmptyDict, "applicationName",
                                  Get(p, "application_name")),
                              "deploymentGroupName",
                              Get(p, "deployment_group_name"))))
        ELSE IF dgn /\ ~app
            THEN Fail("application_name is required when deployment_group_name used")
        ELSE IF ~dgn /\ app
            THEN Fail("deployment_group_name is required when application_name used")
        ELSE Call("list_deployments", WithNextToken(p, EmptyDict))

\* the value is read under 'registration-status', a key module.params
\* never holds
list_on_premises_instances(p) ==
    LET d1 == IF Truthy(Get(p, "registration_status"))
                  THEN Put(EmptyDict, "registrationStatus",
                           Get(p, "registration-status"))
                  ELSE EmptyDict
    IN  Call("list_on_premises_instances", WithNextToken(p, d1))

\* invocations[query](codedeploy, module), as a function of module.params
Builder(q, p) ==
    CASE q = "list_applications" -> list_applications(p)
      [] q = "list_deployment_configs" -> list_deployment_configs(p)
      [] q = "list_deployment_groups" -> list_deployment_groups(p)
      [] q = "list_deployment_instances" -> list_deployment_instances(p)
      [] q = "list_deployments" -> list_deployments(p)
      [] q = "list_on_premises_instances" -> list_on_premises_instances(p)

----------------------------------------------------------------------------
(* main() *)

Init ==
    /\ \E q \in QueryValues, o \in [OptionNames -> OptionValues] :
          request = [k \in InputNames |-> IF k = "query" THEN q ELSE o[k]]
    /\ pc = "init"
    /\ params = EmptyDict
    /\ invoked = ""
    /\ calls = <<>>
    /\ returned = None
    /\ raised = None
    /\ exitJson = <<>>
    /\ failJson = <<>>
    /\ uncaught = None

\* module.fail_json(msg=m): emits the failure and exits the process
fail_json(m) ==
    /\ failJson' = Append(failJson, m)
    /\ pc' = "failed"

\* module = AnsibleModule(argument_spec=argument_spec, supports_check_mode=True)
AnsibleModuleInit ==
    /\ pc = "init"
    /\ LET bad == CheckArguments(request)
       IN  IF bad # None
               THEN /\ fail_json(bad.s)
                    /\ UNCHANGED params
               ELSE /\ params' = ModuleParams(request)
                    /\ pc' = "requirements"
                    /\ UNCHANGED failJson
    /\ UNCHANGED <<request, invoked, calls, returned, raised, exitJson, uncaught>>

\* if not (HAS_BOTO or HAS_BOTO3): module.fail_json(...)
ValidateRequirements ==
    /\ pc = "requirements"
    /\ \E has \in BOOLEAN :
          IF has
              THEN pc' = "connect" /\ UNCHANGED failJson
              ELSE fail_json("json and boto/boto3 is required.")
    /\ UNCHANGED <<request, params, invoked, calls, returned, raised, exitJson, uncaught>>

\* get_aws_connection_info / boto3_conn, NoAuthHandlerFound caught
Connect ==
    /\ pc = "connect"
    /\ \E authorized \in BOOLEAN :
          IF authorized
              THEN pc' = "dispatch" /\ UNCHANGED failJson
              ELSE fail_json("Can't authorize connection - No handler was ready to authenticate")
    /\ UNCHANGED <<request, params, invoked, calls, returned, raised, exitJson, uncaught>>

\* results = invocations[module.params.get('query')](codedeploy, module), for
\* the builder named q: the builder either fails, or invokes the client
\* operation once; the operation returns a mapping or raises, and nothing
\* in the builder or in main() catches what it raises
Invoke(q, eff) ==
    /\ pc = "dispatch"
    /\ Get(params, "query") = Str(q)
    /\ invoked' = q
    /\ IF eff.fail # None
           THEN /\ fail_json(eff.fail.s)
                /\ UNCHANGED <<calls, returned, raised, uncaught>>
           ELSE /\ calls' = Append(calls, [op |-> eff.op, params |-> eff.params])
                /\ UNCHANGED failJson
                /\ \/ \E r \in RemoteResults :
                        /\ returned' = r
                        /\ pc' = "exit"
                        /\ UNCHANGED <<raised, uncaught>>
                   \/ \E e \in RemoteErrors :
                        /\ raised' = Str(e)
                        /\ uncaught' = Str(e)
                        /\ pc' = "crashed"
                        /\ UNCHANGED returned
    /\ UNCHANGED <<request, params, exitJson>>

ListApplications == Invoke("list_applications", list_applications(params))
ListDeploymentConfigs == Invoke("list_deployment_configs", list_deployment_configs(params))
ListDeploymentGroups == Invoke("list_deployment_groups", list_deployment_groups(params))
ListDeploymentInstances == Invoke("list_deployment_instances", list_deployment_instances(params))
ListDeployments == Invoke("list_deployments", list_deployments(params))
ListOnPremisesInstances == Invoke("list_on_premises_instances", list_on_premises_instances(params))

\* the kwargs main() hands to exit_json
ExitKwargs(results) == results

\* module.exit_json with the results as keyword arguments
ExitJson ==
    /\ pc = "exit"
    /\ exitJson' = Append(exitJson, ExitKwargs(returned))
    /\ pc' = "done"
    /\ UNCHANGED <<request, params, invoked, calls, returned, raised, failJson,
                   uncaught>>

Next ==
    \/ AnsibleModuleInit
    \/ ValidateRequirements
    \/ Connect
    \/ ListApplications
    \/ ListDeploymentConfigs
    \/ ListDeploymentGroups
    \/ ListDeploymentInstances
    \/ ListDeployments
    \/ ListOnPremisesInstances
    \/ ExitJson

Spec == Init /\ [][Next]_vars

----------------------------------------------------------------------------
(* Vocabulary of the properties *)

\* the caller supplied the name, with any string
Present(k) == request[k] # Missing
\* the caller supplied the name with a non-empty string
NonEmpty(k) == request[k] # Missing /\ request[k].s # ""

\* the query the caller asked for, "" when left out
Query == IF Present("query") THEN request["query"].s ELSE ""

\* the builder made its remote call; its parameters
Called == calls # <<>>
CallParams == calls[1].params

Has(d, k) == k \in DOMAIN d

MsgAppRequired == "application_name is required"
MsgDepRequired == "deployment_id is required"
MsgAppForGroup == "application_name is required when deployment_group_name used"
MsgGroupForApp == "deployment_group_name is required when application_name used"

----------------------------------------------------------------------------
(* C1 *)

\* the four cases of the linked pair, with has(k) deciding when a field counts
\* as present
LinkedPair(has(_)) ==
    invoked = "list_deployments" =>
        LET app == has("application_name")
            dgn == has("deployment_group_name")
        IN  /\ (~app /\ ~dgn) =>
                  /\ failJson = <<>>
                  /\ Len(calls) = 1
                  /\ ~Has(CallParams, "applicationName")
                  /\ ~Has(CallParams, "deploymentGroupName")
            /\ (app /\ ~dgn) =>
                  /\ calls = <<>>
                  /\ pc = "failed"
                  /\ failJson = <<MsgGroupForApp>>
            /\ (~app /\ dgn) =>
                  /\ calls = <<>>
                  /\ pc = "failed"
                  /\ failJson = <<MsgAppForGroup>>
            /\ (app /\ dgn) =>
                  /\ failJson = <<>>
                  /\ Len(calls) = 1
                  /\ Has(CallParams, "applicationName")
                  /\ Has(CallParams, "deploymentGroupName")
                  /\ CallParams["applicationName"] = request["application_name"]
                  /\ CallParams["deploymentGroupName"] = request["deployment_group_name"]
                  /\ DOMAIN CallParams \subseteq
                         {"applicationName", "deploymentGroupName", "nextToken"}

\* C1, as stated: for list_deployments, with "present" meaning that the caller
\* supplied the field: neither present -> the call is made without
\* applicationName and deploymentGroupName; exactly one present -> the run
\* fails with the message naming the missing companion; both present -> the
\* call carries both with the given values; whatever next_token is.
C1_LinkedPairAsStated == LinkedPair(Present)

\* C1, amended: the same four cases with "present" meaning supplied with a
\* non-empty string; a field supplied as '' counts as absent.
C1_LinkedPairNonEmpty == LinkedPair(NonEmpty)

C1_Witness ==
    /\ invoked = "list_deployments"
    /\ NonEmpty("application_name")
    /\ NonEmpty("deployment_group_name")
    /\ request["application_name"] # request["deployment_group_name"]
    /\ NonEmpty("next_token")
    /\ Called

----------------------------------------------------------------------------
(* C2 *)

OnlyKind == \A k \in OptionNames : request[k] = Missing

\* C2: a run given the query and nothing else gets through the builder for
\* list_applications, list_deployment_configs and list_on_premises_instances
\* (one remote call with no parameters, its result handed to exit_json, no
\* failure), and fails in the builder, before any remote call, with
\* "application_name is required" for list_deployment_groups and with
\* "deployment_id is required" for list_deployment_instances.
C2_OnlyKind ==
    (OnlyKind /\ invoked # "") =>
        /\ Query \in {"list_applications", "list_deployment_configs",
                      "list_on_premises_instances"} =>
              /\ failJson = <<>>
              /\ calls = <<[op |-> Query, params |-> EmptyDict]>>
              /\ pc \in {"exit", "done", "crashed"}
              /\ (pc = "crashed") = (raised # None)
              /\ pc = "done" => exitJson = <<returned>>
        /\ Query = "list_deployment_groups" =>
              /\ pc = "failed"
              /\ failJson = <<MsgAppRequired>>
              /\ calls = <<>>
              /\ exitJson = <<>>
        /\ Query = "list_deployment_instances" =>
              /\ pc = "failed"
              /\ failJson = <<MsgDepRequired>>
              /\ calls = <<>>
              /\ exitJson = <<>>

C2_Witness ==
    /\ OnlyKind
    /\ invoked = "list_deployment_instances"
    /\ pc = "failed"

----------------------------------------------------------------------------
(* C3 *)

\* the request is one the selected builder rejects
ValidationFails ==
    \/ Query = "list_deployment_groups" /\ ~NonEmpty("application_name")
    \/ Query = "list_deployment_instances" /\ ~NonEmpty("deployment_id")
    \/ /\ Query = "list_deployments"
       /\ NonEmpty("application_name") # NonEmpty("deployment_group_name")

ValidationMessages == {MsgAppRequired, MsgDepRequired, MsgAppForGroup, MsgGroupForApp}

\* C3: in a run whose request the selected builder rejects, no remote client
\* operation is ever invoked and nothing reaches exit_json; once the builder
\* has run, the run has ended with exactly one fail_json, the builder's
\* validation message, as its only output.
C3_ValidationBeforeCall ==
    ValidationFails =>
        /\ calls = <<>>
        /\ returned = None
        /\ raised = None
        /\ exitJson = <<>>
        /\ uncaught = None
        /\ Len(failJson) <= 1
        /\ invoked # "" =>
              /\ pc = "failed"
              /\ Len(failJson) = 1
              /\ failJson[1] \in ValidationMessages

C3_Witness ==
    /\ ValidationFails
    /\ invoked = "list_deployment_groups"
    /\ pc = "failed"
    /\ NonEmpty("next_token")

----------------------------------------------------------------------------
(* C4 *)

\* spellings a continuation token key could take
TokenShapedKeys == {"nextToken", "next_token", "NextToken", "token", "Token"}

\* C4: whenever a remote call is made, for every query: with next_token
\* supplied non-empty the call carries nextToken with that value; with
\* next_token left out it carries no nextToken; and it never carries another
\* token-shaped key.
C4_NextToken ==
    Called =>
        /\ NonEmpty("next_token") =>
              /\ Has(CallParams, "nextToken")
              /\ CallParams["nextToken"] = request["next_token"]
        /\ ~Present("next_token") => ~Has(CallParams, "nextToken")
        /\ (DOMAIN CallParams) \cap TokenShapedKeys \subseteq {"nextToken"}

C4_Witness ==
    /\ Called
    /\ invoked = "list_on_premises_instances"
    /\ NonEmpty("next_token")
    /\ Has(CallParams, "nextToken")

----------------------------------------------------------------------------
(* C5 *)

\* C5, as stated: for list_on_premises_instances, with registration_status
\* supplied non-empty the remote call carries registrationStatus with the
\* value the caller supplied; with it left out the call carries no
\* registrationStatus.
C5_RegistrationStatus ==
    (Called /\ invoked = "list_on_premises_instances") =>
        /\ NonEmpty("registration_status") =>
              /\ Has(CallParams, "registrationStatus")
              /\ CallParams["registrationStatus"] = request["registration_status"]
        /\ ~Present("registration_status") => ~Has(CallParams, "registrationStatus")

----------------------------------------------------------------------------
(* C6 *)

MsgUnsupported == "unsupported parameter for module"

\* C6, as stated: a run of list_deployment_instances given deployment_id = d
\* and instance_status_filter = s (both non-empty, nothing else) accepts both
\* inputs, and the remote call it makes carries exactly
\* {deploymentId: d, instanceStatusFilter: s}.
C6_InstanceStatusFilter ==
    ( /\ Query = "list_deployment_instances"
      /\ NonEmpty("deployment_id")
      /\ NonEmpty("instance_status_filter")
      /\ \A k \in OptionNames \ {"deployment_id", "instance_status_filter"} :
            ~Present(k) ) =>
        /\ MsgUnsupported \notin {failJson[i] : i \in 1..Len(failJson)}
        /\ pc # "init" => params # EmptyDict
        /\ Called =>
              CallParams = [deploymentId |-> request["deployment_id"],
                            instanceStatusFilter |-> request["instance_status_filter"]]

----------------------------------------------------------------------------
(* C7 *)

\* C7, as stated: when the remote client operation raises, the run ends in a
\* failure reported through fail_json whose message is the error's message,
\* nothing reaches exit_json, and the remote call is made once.
C7_RemoteErrorReported ==
    raised # None =>
        /\ pc = "failed"
        /\ failJson = <<raised.s>>
        /\ uncaught = None
        /\ exitJson = <<>>
        /\ Len(calls) = 1

----------------------------------------------------------------------------
(* C8 *)

UnknownQuery == Present("query") /\ request["query"].s \notin QueryChoices

\* C8: a run whose query is a string other than the six names (case variants
\* included) never dispatches to a builder and never invokes a remote client
\* operation: constructing the module ends it with a failure.
C8_UnknownQueryRejected ==
    UnknownQuery =>
        /\ invoked = ""
        /\ calls = <<>>
        /\ exitJson = <<>>
        /\ params = EmptyDict
        /\ pc \in {"init", "failed"}
        /\ pc = "failed" => Len(failJson) = 1

C8_Witness ==
    /\ request["query"] = Str("List_Applications")
    /\ ~Present("instance_status_filter")
    /\ pc = "failed"
    /\ failJson = <<"value of query must be one of the choices">>

----------------------------------------------------------------------------
(* C9 *)

\* C9: no run ever makes more than one remote call; a run that ends in
\* exit_json made exactly one, of the operation named by the query, and
\* handed exit_json the mapping that operation returned, once, unchanged;
\* nothing reaches exit_json in any other run.
C9_SingleCallPassThrough ==
    /\ Len(calls) <= 1
    /\ Called => calls[1].op = Query
    /\ pc = "done" =>
          /\ Len(calls) = 1
          /\ calls[1].op = invoked
          /\ returned \in RemoteResults
          /\ exitJson = <<returned>>
          /\ failJson = <<>>
          /\ uncaught = None
    /\ pc # "done" => exitJson = <<>>

C9_Witness ==
    /\ pc = "done"
    /\ invoked = "list_deployment_configs"
    /\ exitJson = <<returned>>
    /\ Len(calls) = 1

----------------------------------------------------------------------------
(* C10 *)

OptionalParams == ArgumentSpec \ {"query"}

\* module.params with the fields of S that hold '' replaced by None
Blank(p, S) == [k \in DOMAIN p |-> IF k \in S /\ p[k] = Str("") THEN None ELSE p[k]]

\* what the run did in its builder is what the effect eff prescribes
Did(eff) ==
    IF eff.fail # None
        THEN /\ calls = <<>>
             /\ failJson = <<eff.fail.s>>
        ELSE /\ calls = <<[op |-> eff.op, params |-> eff.params]>>
             /\ failJson = <<>>

\* C10: once a builder has run, what it did (the validation failure and its
\* message, or the remote call and its parameters) is what the same builder
\* does on module.params with any of the fields holding '' replaced by absent
\* ones; list_deployment_groups with application_name = '' fails with
\* "application_name is required"; next_token = '' never gives a nextToken.
C10_EmptyAsAbsent ==
    invoked # "" =>
        /\ \A S \in SUBSET OptionalParams : Did(Builder(invoked, Blank(params, S)))
        /\ (invoked = "list_deployment_groups" /\ params["application_name"] = Str("")) =>
              /\ calls = <<>>
              /\ failJson = <<MsgAppRequired>>
        /\ (Called /\ params["next_token"] = Str("")) => ~Has(CallParams, "nextToken")

C10_Witness ==
    /\ invoked = "list_deployments"
    /\ params["application_name"] = Str("")
    /\ params["deployment_group_name"] = Str("")
    /\ params["next_token"] = Str("")
    /\ Called

====
